---------------------------- MODULE Spec2Model ----------------------------
(***************************************************************************)
(* Business Intelligence Dashboard (src/app.py): the data pipeline.        *)
(*                                                                         *)
(*   load_data        raw CSV rows  -> canonical table `orders`            *)
(*   update_dashboard filter arguments -> filtered view dff -> KPIs and    *)
(*                    the five figures' aggregates                         *)
(*   compute_kpis     view -> total_revenue, total_orders, aov,            *)
(*                    repeat_rate, cancellation_rate                       *)
(*                                                                         *)
(* A DataFrame is a sequence of rows; a row is a record of its cells plus  *)
(* idx, the DataFrame index label of the row.  A missing cell of a string  *)
(* column (NaN) is the empty string; a numeric or datetime cell is <<v>>   *)
(* or <<>> (NaN, NaT).  A Timestamp is a number of minutes since           *)
(* 2024-01-01 00:00.  Python floats are IEEE-754 doubles, modelled bit by  *)
(* bit (53-bit significand, round to nearest, ties to even).               *)
(***************************************************************************)
EXTENDS Integers, Sequences, FiniteSets, TLC

VARIABLES raw, orders, pc, args, dff, kpis, figs

vars == <<raw, orders, pc, args, dff, kpis, figs>>

--------------------------------------------------------------------------
(* Bounds of the model *)

\* rows of the raw CSV file
MaxRows == 2

\* rows of a view handed directly to compute_kpis (specification SpecKpi)
MaxViewRows == 7

--------------------------------------------------------------------------
(* IEEE-754 double arithmetic, as Python's float uses it *)

\* significand width of a Python float
MantissaBits == 53

\* A float is [sign, exp, mant]: sign in {-1, 0, 1}; mant is the significand,
\* MantissaBits bits, most significant first, leading bit 1; its value is
\* sign * 0.mant * 2^exp.  Zero is the all-zero record.
Zero == [sign |-> 0, exp |-> 0, mant |-> [i \in 1..MantissaBits |-> 0]]

Abs(x) == IF x < 0 THEN 0 - x ELSE x

Sgn(x) == IF x < 0 THEN 0 - 1 ELSE IF x > 0 THEN 1 ELSE 0

\* the powers of two from 2^0 to 2^30
Pow2Table ==
    <<1, 2, 4, 8, 16, 32, 64, 128, 256, 512, 1024, 2048, 4096, 8192, 16384, 32768,
      65536, 131072, 262144, 524288, 1048576, 2097152, 4194304, 8388608, 16777216,
      33554432, 67108864, 134217728, 268435456, 536870912, 1073741824>>

Pow2(k) == Pow2Table[k + 1]

\* 2^k modulo m, by repeated squaring
RECURSIVE Pow2Mod(_, _)
Pow2Mod(k, m) ==
    IF k = 0 THEN 1 % m
    ELSE LET h == Pow2Mod(k \div 2, m)
         IN  (h * h * (IF k % 2 = 1 THEN 2 ELSE 1)) % m

\* the number of binary digits of a natural number (0 for 0)
BitLength(k) == CHOOSE n \in 0..30 : k < Pow2(n) /\ (n = 0 \/ k >= Pow2(n - 1))

\* binary digits of a natural number, most significant first (<<>> for 0)
BitsOf(k) == [i \in 1..BitLength(k) |-> (k \div Pow2(BitLength(k) - i)) % 2]

\* the natural number a bit string of at most 30 digits writes
RECURSIVE ToInt(_)
ToInt(bits) ==
    IF Len(bits) = 0 THEN 0
    ELSE IF Len(bits) = 1 THEN bits[1]
    ELSE LET h == Len(bits) \div 2
         IN  ToInt(SubSeq(bits, 1, h)) * Pow2(Len(bits) - h)
             + ToInt(SubSeq(bits, h + 1, Len(bits)))

\* the digits of a natural number below 2^width, as exactly width digits
Digits(k, width) == [i \in 1..width |-> (k \div Pow2(width - i)) % 2]

AllZero(bits) == \A i \in 1..Len(bits) : bits[i] = 0

\* bits + 1, as a bit string of the same length, with the carry out
Incr(bits) ==
    IF \A i \in 1..Len(bits) : bits[i] = 1
    THEN [bits |-> [i \in 1..Len(bits) |-> 0], carry |-> 1]
    ELSE LET p == CHOOSE i \in 1..Len(bits) :
                      bits[i] = 0 /\ \A j \in (i + 1)..Len(bits) : bits[j] = 1
         IN  [bits |-> [i \in 1..Len(bits) |->
                          IF i < p THEN bits[i] ELSE IF i = p THEN 1 ELSE 0],
              carry |-> 0]

\* bits - 1 for a bit string that is not all zero
Decr(bits) ==
    LET p == CHOOSE i \in 1..Len(bits) :
                 bits[i] = 1 /\ \A j \in (i + 1)..Len(bits) : bits[j] = 0
    IN  [i \in 1..Len(bits) |-> IF i < p THEN bits[i] ELSE IF i = p THEN 0 ELSE 1]

\* Round the positive number 0.bits * 2^exp (bits[1] = 1, any length), followed
\* by a remainder that is zero ("zero"), below half a unit of the last bit of
\* bits ("below"), exactly half ("half") or more ("above"), to MantissaBits
\* bits: round to nearest, ties to even.
RoundBits(sign, exp, bits, rest) ==
    LET n == Len(bits)
        padded == IF n >= MantissaBits THEN bits
                  ELSE bits \o [i \in 1..(MantissaBits - n) |-> 0]
        kept == SubSeq(padded, 1, MantissaBits)
        tail == SubSeq(padded, MantissaBits + 1, Len(padded))
        sticky == rest # "zero"
        \* how the discarded part compares with half a unit of kept's last bit
        cmp == IF tail = <<>> THEN rest
               ELSE IF tail[1] = 0
                    THEN (IF AllZero(tail) /\ ~sticky THEN "zero" ELSE "below")
                    ELSE (IF AllZero(Tail(tail)) /\ ~sticky THEN "half" ELSE "above")
        up == cmp = "above" \/ (cmp = "half" /\ kept[MantissaBits] = 1)
        inc == Incr(kept)
    IN  IF ~up THEN [sign |-> sign, exp |-> exp, mant |-> kept]
        ELSE IF inc.carry = 1
             THEN [sign |-> sign, exp |-> exp + 1,
                   mant |-> <<1>> \o SubSeq(inc.bits, 1, MantissaBits - 1)]
             ELSE [sign |-> sign, exp |-> exp, mant |-> inc.bits]

\* float(k) for an integer k
FromInt(k) ==
    IF k = 0 THEN Zero
    ELSE RoundBits(Sgn(k), BitLength(Abs(k)), BitsOf(Abs(k)), "zero")

\* The first `count` binary digits of num/den (0 <= num < den), and what is
\* left: after i digits the remainder is num * 2^i modulo den.
Quotient(num, den, count) ==
    [bits |-> [i \in 1..count |-> (2 * ((num * Pow2Mod(i - 1, den)) % den)) \div den],
     rem |-> (num * Pow2Mod(count, den)) % den]

\* the exponent e with 2^(e-1) <= num/den < 2^e
ExpOf(num, den) ==
    CHOOSE e \in (0 - 12)..18 :
        IF e >= 1
        THEN den * Pow2(e - 1) <= num /\ num < den * Pow2(e)
        ELSE den <= num * Pow2(1 - e) /\ num * Pow2(0 - e) < den

\* a / b for integers a and b # 0 (Python's true division): the double
\* nearest to the exact quotient
FDiv(a, b) ==
    IF a = 0 THEN Zero
    ELSE LET num == Abs(a)
             den == Abs(b)
             e == ExpOf(num, den)
             n2 == IF e >= 0 THEN num ELSE num * Pow2(0 - e)
             d2 == IF e >= 0 THEN den * Pow2(e) ELSE den
             q == Quotient(n2, d2, MantissaBits)
             rest == IF q.rem = 0 THEN "zero"
                     ELSE IF 2 * q.rem < d2 THEN "below"
                     ELSE IF 2 * q.rem = d2 THEN "half" ELSE "above"
         IN  RoundBits(Sgn(a) * Sgn(b), e, q.bits, rest)

\* bits * k for a significand and a natural number 0 < k < 2^13, as a bit
\* string with leading digit 1: the significand is multiplied in four limbs
\* of 16, 16, 16 and 5 digits, lowest first, the carry passed upward
MulBits(bits, k) ==
    LET p4 == ToInt(SubSeq(bits, 49, 53)) * k
        p3 == ToInt(SubSeq(bits, 33, 48)) * k + p4 \div 32
        p2 == ToInt(SubSeq(bits, 17, 32)) * k + p3 \div 65536
        p1 == ToInt(SubSeq(bits, 1, 16)) * k + p2 \div 65536
    IN  BitsOf(p1) \o Digits(p2 % 65536, 16) \o Digits(p3 % 65536, 16)
        \o Digits(p4 % 32, 5)

\* x * k for a float x and an integer k: the double nearest to the product
\* (what is not a number stays so)
FMul(x, k) ==
    IF x.mant = <<>> THEN x
    ELSE IF x.sign = 0 \/ k = 0 THEN Zero
    ELSE LET p == MulBits(x.mant, Abs(k))
         IN  RoundBits(x.sign * Sgn(k), x.exp + (Len(p) - MantissaBits), p, "zero")

\* the doubles next to x, away from zero and toward zero (x # 0)
NextAway(x) ==
    LET inc == Incr(x.mant)
    IN  IF inc.carry = 1
        THEN [sign |-> x.sign, exp |-> x.exp + 1,
              mant |-> <<1>> \o SubSeq(inc.bits, 1, MantissaBits - 1)]
        ELSE [sign |-> x.sign, exp |-> x.exp, mant |-> inc.bits]

NextToward(x) ==
    IF AllZero(Tail(x.mant))
    THEN [sign |-> x.sign, exp |-> x.exp - 1, mant |-> [i \in 1..MantissaBits |-> 1]]
    ELSE [sign |-> x.sign, exp |-> x.exp, mant |-> Decr(x.mant)]

\* x < y for floats of sign >= 0
FLess(x, y) ==
    IF y.sign = 0 THEN FALSE
    ELSE IF x.sign = 0 THEN TRUE
    ELSE IF x.exp # y.exp THEN x.exp < y.exp
    ELSE \E i \in 1..MantissaBits :
            x.mant[i] < y.mant[i] /\ \A j \in 1..(i - 1) : x.mant[j] = y.mant[j]

\* The outcome of a division by zero: ZeroDivisionError for Python ints, inf
\* or nan (with a RuntimeWarning) for a numpy scalar.  Not a number.
DivisionByZero == [sign |-> 0, exp |-> 0, mant |-> <<>>]

\* a / b as update_dashboard's helpers evaluate it
TrueDiv(a, b) == IF b = 0 THEN DivisionByZero ELSE FDiv(a, b)

--------------------------------------------------------------------------
(* Cells *)

\* Python's None: an argument the caller did not supply
None == "None"

\* a missing numeric cell, and a missing datetime cell
NaN == <<>>

NaT == <<>>

\* The texts pd.to_datetime parses, with their Timestamps in minutes since
\* 2024-01-01 00:00; any other text is unparseable.
DateLit ==
    ("2024-01-01" :> 0) @@ ("2024-01-02" :> 1440) @@
    ("2024-01-02 14:30" :> 2310) @@ ("2024-01-03" :> 2880)

\* pd.to_datetime(text, errors='coerce')
to_datetime(text) == IF text \in DOMAIN DateLit THEN <<DateLit[text]>> ELSE NaT

\* The texts pd.to_numeric parses; any other text is unparseable.
NumLit ==
    ("4" :> 4) @@ ("5" :> 5) @@ ("10" :> 10) @@ ("20" :> 20) @@ ("30" :> 30) @@
    ("45" :> 45) @@ ("-5" :> (0 - 5))

\* pd.to_numeric(text, errors='coerce')
to_numeric(text) == IF text \in DOMAIN NumLit THEN <<NumLit[text]>> ELSE NaN

\* Series.fillna(value), cell by cell
fillna(cell, value) == IF cell = NaN THEN <<value>> ELSE cell

\* Series.astype(str), cell by cell: a missing cell becomes the text "nan"
astype_str(cell) == IF cell = "" THEN "nan" ELSE cell

\* Series.astype(int), cell by cell, on the cells read_csv yields for the flag
\* column: booleans become 1 and 0, an integer stays what it is.
IntLit == ("0" :> 0) @@ ("1" :> 1) @@ ("2" :> 2) @@ ("True" :> 1) @@ ("False" :> 0)

astype_int(cell) == IntLit[cell]

\* Timestamp.date(), as a day number
dt_date(ts) == ts \div 1440

--------------------------------------------------------------------------
(* load_data *)

\* pd.read_csv: the file's rows, labelled 1, 2, ... by the DataFrame index
read_csv(file) ==
    [i \in 1..Len(file.rows) |->
        [idx |-> i,
         order_id |-> file.rows[i].order_id,
         order_date |-> file.rows[i].order_date,
         order_value |-> file.rows[i].order_value,
         delivery_time_minutes |-> file.rows[i].delivery_time_minutes,
         order_status |-> file.rows[i].order_status,
         city |-> file.rows[i].city,
         customer_id |-> file.rows[i].customer_id,
         is_repeat_customer |-> file.rows[i].is_repeat_customer]]

\* load_data without its dropna: no row is removed
dropna_none(df) == df

\* df.dropna(subset=['order_date'])
dropna_order_date(df) == SelectSeq(df, LAMBDA r : r.order_date # NaT)

\* the order_value cell without fillna(0): an unparseable value stays NaN
clean_order_value_nofill(cell) == to_numeric(cell)

\* pd.to_numeric(df['order_value'], errors='coerce').fillna(0), cell by cell
clean_order_value(cell) == fillna(to_numeric(cell), 0)

\* a synthesized is_repeat_customer column of ones
default_flag_one == "1"

\* line 45, df['is_repeat_customer'] = 0: the cell of the synthesized column
default_flag == "0"

\* lines 44-46: the flag column, synthesized when the file has none, as integers
clean_is_repeat(columns, cell) ==
    astype_int(IF "is_repeat_customer" \notin columns THEN default_flag ELSE cell)

\* lines 38-46 of load_data, on the DataFrame read_csv returned
clean(df, columns) ==
    LET dated == [i \in DOMAIN df |-> [df[i] EXCEPT !.order_date = to_datetime(@)]]
        kept == dropna_order_date(dated)
    IN  [i \in DOMAIN kept |->
            [kept[i] EXCEPT
                !.order_value = clean_order_value(@),
                !.delivery_time_minutes = to_numeric(@),
                !.order_status = astype_str(@),
                !.is_repeat_customer = clean_is_repeat(columns, @)]]

load_data(file) == clean(read_csv(file), file.columns)

--------------------------------------------------------------------------
(* compute_kpis *)

RECURSIVE SumValues(_)
\* df['order_value'].sum(): missing cells are skipped
SumValues(df) ==
    IF df = <<>> THEN 0
    ELSE (IF Head(df).order_value = NaN THEN 0 ELSE Head(df).order_value[1])
         + SumValues(Tail(df))

\* Series.nunique(): the distinct values present, missing cells not counted
nunique(cells) == Cardinality(cells \ {""})

Rows(df) == {df[i] : i \in DOMAIN df}

total_revenue(df) == SumValues(df)

total_orders(df) == nunique({r.order_id : r \in Rows(df)})

\* an average over the rows of the view in place of its distinct order_ids
aov_per_row(df) ==
    IF Len(df) > 0 THEN TrueDiv(total_revenue(df), Len(df)) ELSE Zero

\* line 63: total_revenue / total_orders if total_orders > 0 else 0
aov(df) ==
    IF total_orders(df) > 0 THEN TrueDiv(total_revenue(df), total_orders(df)) ELSE Zero

\* the repeat rate without the guard on unique_customers
repeat_rate_unguarded(df) ==
    LET repeat_customers ==
            nunique({r.customer_id : r \in {x \in Rows(df) : x.is_repeat_customer = 1}})
        unique_customers == nunique({r.customer_id : r \in Rows(df)})
    IN  FMul(TrueDiv(repeat_customers, unique_customers), 100)

\* lines 66-68: repeat customers over unique customers, times 100
repeat_rate(df) ==
    LET repeat_customers ==
            nunique({r.customer_id : r \in {x \in Rows(df) : x.is_repeat_customer = 1}})
        unique_customers == nunique({r.customer_id : r \in Rows(df)})
    IN  IF unique_customers > 0
        THEN FMul(TrueDiv(repeat_customers, unique_customers), 100)
        ELSE Zero

\* df['order_status'].value_counts().get('Cancelled', 0): a count of rows
CancelledCount(df) == Cardinality({i \in DOMAIN df : df[i].order_status = "Cancelled"})

\* a cancellation rate that counts distinct cancelled order_ids, not rows
cancellation_rate_distinct(df) ==
    IF total_orders(df) > 0
    THEN FMul(TrueDiv(nunique({r.order_id : r \in
                        {x \in Rows(df) : x.order_status = "Cancelled"}}),
                      total_orders(df)), 100)
    ELSE Zero

\* line 71: cancelled rows over total_orders, times 100, 0 without orders
cancellation_rate(df) ==
    IF total_orders(df) > 0
    THEN FMul(TrueDiv(CancelledCount(df), total_orders(df)), 100)
    ELSE Zero

compute_kpis(df) ==
    [total_revenue |-> total_revenue(df),
     total_orders |-> total_orders(df),
     aov |-> aov(df),
     repeat_rate |-> repeat_rate(df),
     cancellation_rate |-> cancellation_rate(df)]

\* whether compute_kpis raised instead of returning
Raised(k) ==
    DivisionByZero \in {k.aov, k.repeat_rate, k.cancellation_rate}

--------------------------------------------------------------------------
(* The figures' aggregates *)

RECURSIVE SortedAsc(_)
\* the numbers of a set in ascending order: groupby sorts its keys
SortedAsc(S) ==
    IF S = {} THEN <<>>
    ELSE LET m == CHOOSE x \in S : \A y \in S : x <= y
         IN  <<m>> \o SortedAsc(S \ {m})

\* a pair <<label, number>> put into a sequence sorted by descending number,
\* after the pairs of the same number
InsertDesc(sorted, pair) ==
    LET before == SelectSeq(sorted, LAMBDA q : q[2] >= pair[2])
        after == SelectSeq(sorted, LAMBDA q : q[2] < pair[2])
    IN  before \o <<pair>> \o after

RECURSIVE SortDesc(_)
\* sort_values(ascending=False) on pairs <<label, number>>
SortDesc(pairs) ==
    IF pairs = <<>> THEN <<>>
    ELSE InsertDesc(SortDesc(SubSeq(pairs, 1, Len(pairs) - 1)), pairs[Len(pairs)])

\* the calendar days present in df['order_date'].dt.date, ascending
Days(df) ==
    SortedAsc({dt_date(r.order_date[1]) : r \in {x \in Rows(df) : x.order_date # NaT}})

OnDay(df, day) ==
    SelectSeq(df, LAMBDA r : r.order_date # NaT /\ dt_date(r.order_date[1]) = day)

\* fig_revenue_trend: daily, the revenue of each calendar day
fig_revenue_trend(df) ==
    [i \in 1..Len(Days(df)) |->
        [order_date |-> Days(df)[i], order_value |-> SumValues(OnDay(df, Days(df)[i]))]]

\* the daily trend with agg 'nunique' in place of 'count' (distinct order_ids)
fig_orders_volume_trend_nunique(df) ==
    [i \in 1..Len(Days(df)) |->
        [order_date |-> Days(df)[i],
         orders |-> nunique({r.order_id : r \in Rows(OnDay(df, Days(df)[i]))})]]

\* fig_orders_volume_trend: daily, agg 'count' of order_id, the rows of each
\* day whose order_id cell is present
fig_orders_volume_trend(df) ==
    [i \in 1..Len(Days(df)) |->
        [order_date |-> Days(df)[i],
         orders |-> Len(SelectSeq(OnDay(df, Days(df)[i]), LAMBDA r : r.order_id # ""))]]

\* the city names of the data, in the (alphabetical) order groupby puts them
CityOrder == <<"Delhi", "Pune">>

\* fig_city_performance: city_rev, revenue per city, highest first
fig_city_performance(df) ==
    LET present == SelectSeq(CityOrder, LAMBDA c : \E r \in Rows(df) : r.city = c)
        sums == [i \in 1..Len(present) |->
                    <<present[i], SumValues(SelectSeq(df, LAMBDA r : r.city = present[i]))>>]
        sorted == SortDesc(sums)
    IN  [i \in 1..Len(sorted) |-> [city |-> sorted[i][1], order_value |-> sorted[i][2]]]

\* Series.map({0: 'New Customer', 1: 'Repeat Customer'}), cell by cell: any
\* other flag maps to a missing cell
CustomerType(flag) ==
    IF flag = 0 THEN "New Customer" ELSE IF flag = 1 THEN "Repeat Customer" ELSE ""

\* fig_customer_behavior: counts, the rows of each customer type present,
\* most frequent first (value_counts leaves missing cells out)
fig_customer_behavior(df) ==
    LET types == [i \in DOMAIN df |-> CustomerType(df[i].is_repeat_customer)]
        seen == SelectSeq(types, LAMBDA t : t # "")
        first == IF seen = <<>> THEN <<>>
                 ELSE <<seen[1]>> \o
                      (IF \E i \in DOMAIN seen : seen[i] # seen[1]
                       THEN <<CHOOSE t \in {seen[i] : i \in DOMAIN seen} : t # seen[1]>>
                       ELSE <<>>)
        counted == [i \in 1..Len(first) |->
                      <<first[i], Len(SelectSeq(seen, LAMBDA t : t = first[i]))>>]
        sorted == SortDesc(counted)
    IN  [i \in 1..Len(sorted) |-> [customer_type |-> sorted[i][1], count |-> sorted[i][2]]]

\* fig_operational_efficiency: the delivery times the box plot draws
fig_operational_efficiency(df) ==
    LET present == SelectSeq(df, LAMBDA r : r.delivery_time_minutes # NaN)
    IN  [i \in 1..Len(present) |-> present[i].delivery_time_minutes[1]]

\* lines 233-237: the five figures of one request
Figures(df) ==
    [revenue_trend |-> fig_revenue_trend(df),
     orders_volume_trend |-> fig_orders_volume_trend(df),
     city_performance |-> fig_city_performance(df),
     customer_behavior |-> fig_customer_behavior(df),
     operational_efficiency |-> fig_operational_efficiency(df)]

--------------------------------------------------------------------------
(* update_dashboard: the filters *)

\* `if start_date:` and `if end_date:`
Truthy(text) == text # None /\ text # ""

\* dff[dff['order_date'] >= pd.to_datetime(start_date)]; a comparison with NaT
\* is False
filter_start(df, start_date) ==
    IF Truthy(start_date)
    THEN SelectSeq(df, LAMBDA r :
            r.order_date # NaT /\ r.order_date[1] >= to_datetime(start_date)[1])
    ELSE df

\* an end bound that leaves out the end instant itself
filter_end_strict(df, end_date) ==
    IF Truthy(end_date)
    THEN SelectSeq(df, LAMBDA r :
            r.order_date # NaT /\ r.order_date[1] < to_datetime(end_date)[1])
    ELSE df

\* dff[dff['order_date'] <= pd.to_datetime(end_date)]
filter_end(df, end_date) ==
    IF Truthy(end_date)
    THEN SelectSeq(df, LAMBDA r :
            r.order_date # NaT /\ r.order_date[1] <= to_datetime(end_date)[1])
    ELSE df

\* a city filter that keeps the view when no row matches
filter_cities_unless_empty(df, selected_cities) ==
    LET hit == SelectSeq(df, LAMBDA r : r.city \in selected_cities)
    IN  IF hit # <<>> THEN hit ELSE df

\* dff[dff['city'].isin(selected_cities)]; None and [] are both falsy
filter_cities(df, selected_cities) ==
    IF selected_cities # {}
    THEN SelectSeq(df, LAMBDA r : r.city \in selected_cities)
    ELSE df

\* dff[dff['order_status'].isin(selected_statuses)]
filter_statuses(df, selected_statuses) ==
    IF selected_statuses # {}
    THEN SelectSeq(df, LAMBDA r : r.order_status \in selected_statuses)
    ELSE df

\* orders.copy(): a new DataFrame with the same rows
copy(df) == df

\* lines 194-202: the filtered view of one request
apply_filters(df, a) ==
    filter_statuses(
        filter_cities(
            filter_end(filter_start(copy(df), a.start_date), a.end_date),
            a.selected_cities),
        a.selected_statuses)

\* a handler that filtered the module-level table in place
orders_rebound(canonical, view) == view

\* What the module-level name `orders` is bound to after a step of
\* update_dashboard that leaves `view` in its local name dff: the handler
\* assigns to its local names only, and df[mask] builds a new DataFrame.
orders_after(canonical, view) == canonical

--------------------------------------------------------------------------
(* The inputs *)

Columns ==
    {"order_id", "order_date", "order_value", "delivery_time_minutes",
     "order_status", "city", "customer_id", "is_repeat_customer"}

\* The rows a CSV file is made of: a plain order; an order with a time of day;
\* a refund sharing its order_id with the first row; a row whose date does not
\* parse; a row whose numbers and status are unreadable and whose flag is
\* neither 0 nor 1; a row without order_id and customer_id.
RawRows ==
    { [order_id |-> "A1", order_date |-> "2024-01-01", order_value |-> "10",
       delivery_time_minutes |-> "30", order_status |-> "Completed",
       city |-> "Pune", customer_id |-> "c1", is_repeat_customer |-> "0"],
      [order_id |-> "A2", order_date |-> "2024-01-02 14:30", order_value |-> "20",
       delivery_time_minutes |-> "", order_status |-> "Cancelled",
       city |-> "Delhi", customer_id |-> "c2", is_repeat_customer |-> "1"],
      [order_id |-> "A1", order_date |-> "2024-01-02", order_value |-> "-5",
       delivery_time_minutes |-> "45", order_status |-> "Cancelled",
       city |-> "Pune", customer_id |-> "c1", is_repeat_customer |-> "True"],
      [order_id |-> "A4", order_date |-> "not a date", order_value |-> "30",
       delivery_time_minutes |-> "30", order_status |-> "Completed",
       city |-> "Delhi", customer_id |-> "c2", is_repeat_customer |-> "1"],
      [order_id |-> "A5", order_date |-> "2024-01-03", order_value |-> "abc",
       delivery_time_minutes |-> "abc", order_status |-> "",
       city |-> "Delhi", customer_id |-> "c3", is_repeat_customer |-> "2"],
      [order_id |-> "", order_date |-> "2024-01-01", order_value |-> "5",
       delivery_time_minutes |-> "20", order_status |-> "Cancelled",
       city |-> "Pune", customer_id |-> "", is_repeat_customer |-> "False"] }

RawTables == UNION {[1..n -> RawRows] : n \in 0..MaxRows}

\* the CSV files: with the is_repeat_customer column, and without it
Files ==
    {[columns |-> Columns, rows |-> rows] : rows \in RawTables}
    \cup
    {[columns |-> Columns \ {"is_repeat_customer"},
      rows |-> [i \in DOMAIN rows |-> [rows[i] EXCEPT !.is_repeat_customer = ""]]] :
        rows \in RawTables}

\* the arguments Dash passes to update_dashboard
Args ==
    [start_date : {None, "2024-01-02"},
     end_date : {None, "2024-01-01", "2024-01-02"},
     selected_cities : SUBSET {"Delhi", "Pune"},
     selected_statuses : SUBSET {"Completed", "Cancelled"}]

\* the arguments of the requests that overlap
OverlapArgs ==
    {a \in Args : /\ a.end_date = None
                  /\ a.selected_cities = {}
                  /\ (a.start_date = None \/ a.selected_statuses = {})
                  /\ a.selected_statuses \in {{}, {"Cancelled"}}}

Threads == {"t1", "t2"}

\* what a request's names hold while no request runs
NoArgs ==
    [start_date |-> None, end_date |-> None,
     selected_cities |-> {}, selected_statuses |-> {}]

NoKpis ==
    [total_revenue |-> 0, total_orders |-> 0, aov |-> Zero,
     repeat_rate |-> Zero, cancellation_rate |-> Zero]

NoFigs ==
    [revenue_trend |-> <<>>, orders_volume_trend |-> <<>>, city_performance |-> <<>>,
     customer_behavior |-> <<>>, operational_efficiency |-> <<>>]

--------------------------------------------------------------------------
(* The dashboard: load once, then one request at a time *)

\* lines 153-154: the layout asks the date of the earliest and the latest
\* order; with no order left that date is NaT, which has none, and the module
\* fails to import.
LayoutBuilds(canonical) == canonical # <<>>

Idle ==
    /\ pc = [t \in Threads |-> "idle"]
    /\ args = [t \in Threads |-> NoArgs]
    /\ dff = [t \in Threads |-> <<>>]
    /\ kpis = [t \in Threads |-> NoKpis]
    /\ figs = [t \in Threads |-> NoFigs]

Init ==
    /\ raw \in Files
    /\ orders = load_data(raw)
    /\ LayoutBuilds(orders)
    /\ Idle

\* update_dashboard, from its call to its return statement
UpdateDashboard(t, a) ==
    /\ pc[t] = "idle"
    /\ LET view == apply_filters(orders, a)
           k == compute_kpis(view)
       IN  /\ args' = [args EXCEPT ![t] = a]
           /\ dff' = [dff EXCEPT ![t] = view]
           /\ kpis' = [kpis EXCEPT ![t] = k]
           /\ figs' = [figs EXCEPT ![t] = IF Raised(k) THEN NoFigs ELSE Figures(view)]
           /\ pc' = [pc EXCEPT ![t] = IF Raised(k) THEN "error" ELSE "returned"]
           /\ orders' = orders_after(orders, view)
    /\ UNCHANGED raw

\* the outputs leave with the response; the request's names are gone
Respond(t) ==
    /\ pc[t] \in {"returned", "error"}
    /\ pc' = [pc EXCEPT ![t] = "idle"]
    /\ args' = [args EXCEPT ![t] = NoArgs]
    /\ dff' = [dff EXCEPT ![t] = <<>>]
    /\ kpis' = [kpis EXCEPT ![t] = NoKpis]
    /\ figs' = [figs EXCEPT ![t] = NoFigs]
    /\ UNCHANGED <<raw, orders>>

Next ==
    \/ \E a \in Args : UpdateDashboard("t1", a)
    \/ Respond("t1")

Spec == Init /\ [][Next]_vars

--------------------------------------------------------------------------
(* The dashboard under a threaded server: the steps of two requests interleave *)

\* line 194: dff = orders.copy()
Begin(t, a) ==
    /\ pc[t] = "idle"
    /\ args' = [args EXCEPT ![t] = a]
    /\ dff' = [dff EXCEPT ![t] = copy(orders)]
    /\ pc' = [pc EXCEPT ![t] = "copied"]
    /\ orders' = orders_after(orders, dff'[t])
    /\ UNCHANGED <<raw, kpis, figs>>

\* lines 195-202: the four filters
Filter(t) ==
    /\ pc[t] = "copied"
    /\ dff' = [dff EXCEPT ![t] = apply_filters(dff[t], args[t])]
    /\ pc' = [pc EXCEPT ![t] = "filtered"]
    /\ orders' = orders_after(orders, dff'[t])
    /\ UNCHANGED <<raw, args, kpis, figs>>

\* line 205: kpis = compute_kpis(dff)
Compute(t) ==
    /\ pc[t] = "filtered"
    /\ kpis' = [kpis EXCEPT ![t] = compute_kpis(dff[t])]
    /\ pc' = [pc EXCEPT ![t] = IF Raised(kpis'[t]) THEN "error" ELSE "computed"]
    /\ orders' = orders_after(orders, dff[t])
    /\ UNCHANGED <<raw, args, dff, figs>>

\* lines 233-250: the figures, and the return
BuildFigures(t) ==
    /\ pc[t] = "computed"
    /\ figs' = [figs EXCEPT ![t] = Figures(dff[t])]
    /\ pc' = [pc EXCEPT ![t] = "returned"]
    /\ orders' = orders_after(orders, dff[t])
    /\ UNCHANGED <<raw, args, dff, kpis>>

NextOverlap ==
    \E t \in Threads :
        \/ \E a \in OverlapArgs : Begin(t, a)
        \/ Filter(t)
        \/ Compute(t)
        \/ BuildFigures(t)
        \/ Respond(t)

SpecOverlap == Init /\ [][NextOverlap]_vars

--------------------------------------------------------------------------
(* compute_kpis alone, on views of up to MaxViewRows orders *)

KpiIds == <<"K1", "K2", "K3", "K4", "K5", "K6", "K7", "K8", "K9">>

\* an order of value 4, an order of value 5, a cancelled row without order_id
KpiRow(i, kind) ==
    [idx |-> i,
     order_id |-> IF kind = "noid" THEN "" ELSE KpiIds[i],
     order_date |-> <<0>>,
     order_value |-> IF kind = "four" THEN <<4>> ELSE <<5>>,
     delivery_time_minutes |-> NaN,
     order_status |-> IF kind = "noid" THEN "Cancelled" ELSE "Completed",
     city |-> "Pune",
     customer_id |-> "c1",
     is_repeat_customer |-> 0]

KpiViews ==
    UNION {{[i \in 1..n |-> KpiRow(i, kinds[i])] : kinds \in [1..n -> {"four", "five", "noid"}]} :
            n \in 0..MaxViewRows}

InitKpi ==
    /\ raw = [columns |-> Columns, rows |-> <<>>]
    /\ orders = <<>>
    /\ pc = [t \in Threads |-> "idle"]
    /\ args = [t \in Threads |-> NoArgs]
    /\ dff \in {[t \in Threads |-> IF t = "t1" THEN v ELSE <<>>] : v \in KpiViews}
    /\ kpis = [t \in Threads |-> NoKpis]
    /\ figs = [t \in Threads |-> NoFigs]

\* compute_kpis(df) on the view
KpiCompute ==
    /\ pc["t1"] = "idle"
    /\ kpis' = [kpis EXCEPT !["t1"] = compute_kpis(dff["t1"])]
    /\ pc' = [pc EXCEPT !["t1"] = IF Raised(kpis'["t1"]) THEN "error" ELSE "computed"]
    /\ UNCHANGED <<raw, orders, args, dff, figs>>

NextKpi == KpiCompute

SpecKpi == InitKpi /\ [][NextKpi]_vars

--------------------------------------------------------------------------
(* Properties *)

Returned(t) == pc[t] = "returned"

RECURSIVE SumField(_, _)
\* the sum of the numbers a figure's table holds under `field`
SumField(table, field) ==
    IF table = <<>> THEN 0 ELSE Head(table)[field] + SumField(Tail(table), field)

\* the rows of a view whose order_id cell is present
WithOrderId(df) == {i \in DOMAIN df : df[i].order_id # ""}

\* no order_id appears in two rows of the view
DistinctOrderIds(df) ==
    \A i, j \in WithOrderId(df) : i # j => df[i].order_id # df[j].order_id

\* C1 as stated: the per-day counts of orders_by_day add up to total_orders of
\* the same filtered view.
C1_SumEqualsTotalOrders ==
    \A t \in Threads :
        Returned(t) =>
            SumField(figs[t].orders_volume_trend, "orders") = kpis[t].total_orders

\* C1 as amended: the per-day counts add up to the number of rows of the view
\* that have an order_id, which is at least total_orders (the number of
\* distinct order_ids) and equals it exactly when no order_id repeats.
C1_SumCountsRows ==
    \A t \in Threads :
        Returned(t) =>
            LET s == SumField(figs[t].orders_volume_trend, "orders")
            IN  /\ s = Cardinality(WithOrderId(dff[t]))
                /\ s >= kpis[t].total_orders
                /\ (s = kpis[t].total_orders <=> DistinctOrderIds(dff[t]))

C1_Witness ==
    \E t \in Threads :
        /\ Returned(t)
        /\ Len(dff[t]) = 2
        /\ dff[t][1].order_id # ""
        /\ dff[t][1].order_id = dff[t][2].order_id
        /\ SumField(figs[t].orders_volume_trend, "orders") = 2
        /\ kpis[t].total_orders = 1

\* the doubles at most one unit in the last place from x
Near(x) == IF x = Zero THEN {Zero} ELSE {x, NextAway(x), NextToward(x)}

\* C2 as stated: aov * total_orders equals total_revenue when total_orders > 0;
\* aov and cancellation_rate are 0 when total_orders = 0.
C2_AovTimesOrdersExact ==
    pc["t1"] = "computed" =>
        LET k == kpis["t1"]
        IN  /\ k.total_orders > 0 =>
                FMul(k.aov, k.total_orders) = FromInt(k.total_revenue)
            /\ k.total_orders = 0 => k.aov = Zero /\ k.cancellation_rate = Zero

\* C2 as amended: when total_orders > 0, aov * total_orders is total_revenue or
\* one of the two doubles next to it (the quotient was rounded); aov and
\* cancellation_rate are 0 when total_orders = 0.
C2_AovTimesOrdersNear ==
    pc["t1"] = "computed" =>
        LET k == kpis["t1"]
        IN  /\ k.total_orders > 0 =>
                FMul(k.aov, k.total_orders) \in Near(FromInt(k.total_revenue))
            /\ k.total_orders = 0 => k.aov = Zero /\ k.cancellation_rate = Zero

C2_Witness ==
    /\ pc["t1"] = "computed"
    /\ kpis["t1"].total_orders = 7
    /\ kpis["t1"].total_revenue = 29
    /\ FMul(kpis["t1"].aov, 7) = NextAway(FromInt(29))

\* a record satisfies every constraint the arguments supply
Satisfies(r, a) ==
    /\ Truthy(a.start_date) => to_datetime(a.start_date)[1] <= r.order_date[1]
    /\ Truthy(a.end_date) => r.order_date[1] <= to_datetime(a.end_date)[1]
    /\ a.selected_cities # {} => r.city \in a.selected_cities
    /\ a.selected_statuses # {} => r.order_status \in a.selected_statuses

\* C3: the filtered view holds exactly the records of the canonical table that
\* satisfy all supplied constraints (start <= order_date, order_date <= end,
\* city in the set, status in the set); an absent field or an empty set
\* removes no record.
C3_ViewIsConjunction ==
    \A t \in Threads :
        Returned(t) => dff[t] = SelectSeq(orders, LAMBDA r : Satisfies(r, args[t]))

C3_Witness ==
    \E t \in Threads :
        /\ Returned(t)
        /\ Truthy(args[t].start_date) /\ Truthy(args[t].end_date)
        /\ args[t].selected_cities # {} /\ args[t].selected_statuses # {}
        /\ dff[t] # <<>>
        /\ Len(dff[t]) < Len(orders)

\* one of the four filters of update_dashboard
FilterStep(df, step, a) ==
    CASE step = "start" -> filter_start(df, a.start_date)
      [] step = "end" -> filter_end(df, a.end_date)
      [] step = "city" -> filter_cities(df, a.selected_cities)
      [] step = "status" -> filter_statuses(df, a.selected_statuses)

\* the 24 orders in which the four filters can be applied
FilterOrders ==
    {p \in [1..4 -> {"start", "end", "city", "status"}] :
        \A i, j \in 1..4 : i # j => p[i] # p[j]}

\* C4: applying the date, city and status filters in any order yields the
\* filtered view update_dashboard builds.
C4_FiltersCommute ==
    \A t \in Threads :
        Returned(t) =>
            \A p \in FilterOrders :
                FilterStep(FilterStep(FilterStep(FilterStep(
                    orders, p[1], args[t]), p[2], args[t]), p[3], args[t]), p[4], args[t])
                = dff[t]

C4_Witness ==
    \E t \in Threads :
        /\ Returned(t)
        /\ Truthy(args[t].start_date)
        /\ args[t].selected_cities # {}
        /\ filter_start(orders, args[t].start_date) # orders
        /\ filter_cities(orders, args[t].selected_cities) # orders
        /\ filter_start(orders, args[t].start_date)
               # filter_cities(orders, args[t].selected_cities)

\* C5: after any sequence of requests, overlapping ones included, the
\* canonical table is the table load_data produced at startup.
C5_CanonicalTableUnchanged == orders = load_data(raw)

C5_Witness ==
    /\ pc["t1"] = "filtered"
    /\ pc["t2"] = "computed"
    /\ dff["t1"] # orders
    /\ dff["t2"] # dff["t1"]

\* C6: on a filtered view of zero rows compute_kpis returns 0 for all five
\* KPIs, all five aggregates are empty, and the request ends without an error.
C6_EmptyViewZeroes ==
    \A t \in Threads :
        (pc[t] \in {"returned", "error"} /\ dff[t] = <<>>) =>
            /\ pc[t] = "returned"
            /\ kpis[t].total_revenue = 0
            /\ kpis[t].total_orders = 0
            /\ kpis[t].aov = Zero
            /\ kpis[t].repeat_rate = Zero
            /\ kpis[t].cancellation_rate = Zero
            /\ figs[t].revenue_trend = <<>>
            /\ figs[t].orders_volume_trend = <<>>
            /\ figs[t].city_performance = <<>>
            /\ figs[t].customer_behavior = <<>>
            /\ figs[t].operational_efficiency = <<>>

C6_Witness ==
    \E t \in Threads :
        /\ Returned(t)
        /\ args[t].selected_cities # {}
        /\ filter_cities(orders, args[t].selected_cities) = <<>>
        /\ dff[t] = <<>>

\* the file's rows whose order_date parses
ParseableRows(file) ==
    SelectSeq(read_csv(file), LAMBDA r : to_datetime(r.order_date) # NaT)

\* C7: every record of the canonical table has an order_date, and a raw row
\* whose order_date cannot be parsed contributes to no KPI and no aggregate:
\* the results are those of the file with such rows taken out.
C7_UnparseableDatesAbsent ==
    /\ \A r \in Rows(orders) : r.order_date # NaT
    /\ \A t \in Threads :
          Returned(t) =>
              LET view == apply_filters(clean(ParseableRows(raw), raw.columns), args[t])
              IN  /\ \A r \in Rows(dff[t]) :
                        to_datetime(raw.rows[r.idx].order_date) # NaT
                  /\ kpis[t] = compute_kpis(view)
                  /\ figs[t] = Figures(view)

C7_Witness ==
    \E t \in Threads :
        /\ Returned(t)
        /\ \E i \in DOMAIN raw.rows : to_datetime(raw.rows[i].order_date) = NaT
        /\ ~Truthy(args[t].start_date) /\ ~Truthy(args[t].end_date)
        /\ dff[t] = orders

\* C8 as stated: every record of the canonical table has an order_value that
\* is a number >= 0; an unparseable order_value becomes 0 and its row is kept.
C8_ValuesNonNegative ==
    \A r \in Rows(orders) :
        /\ r.order_value # NaN
        /\ r.order_value[1] >= 0
        /\ to_numeric(raw.rows[r.idx].order_value) = NaN => r.order_value = <<0>>

\* C8 as amended: every row of the file whose date parses is a record of the
\* canonical table, with an order_value that is a number, never missing: 0
\* when the file's value is unparseable, the file's value as it is otherwise,
\* a negative one included.
C8_ValuesNumbers ==
    \A i \in DOMAIN raw.rows :
        to_datetime(raw.rows[i].order_date) # NaT =>
            \E r \in Rows(orders) :
                /\ r.idx = i
                /\ r.order_value # NaN
                /\ r.order_value =
                       IF to_numeric(raw.rows[i].order_value) = NaN
                       THEN <<0>>
                       ELSE to_numeric(raw.rows[i].order_value)

C8_Witness ==
    /\ \E r \in Rows(orders) :
          to_numeric(raw.rows[r.idx].order_value) = NaN /\ r.order_value = <<0>>
    /\ \E r \in Rows(orders) : r.order_value[1] < 0

\* the arguments with the status constraint taken away
WithoutStatuses(a) == [a EXCEPT !.selected_statuses = {}]

\* the cancelled rows among the records the other constraints let through
CancelledRows(a) ==
    SelectSeq(orders, LAMBDA r :
        Satisfies(r, WithoutStatuses(a)) /\ r.order_status = "Cancelled")

\* C9 as stated: filtering with the status set {"Cancelled"} and a non-empty
\* result gives cancellation_rate = 100, total_orders the number of cancelled
\* orders of the view, total_revenue the sum of exactly the cancelled rows.
C9_CancelledOnlyRateIs100 ==
    \A t \in Threads :
        (Returned(t) /\ args[t].selected_statuses = {"Cancelled"} /\ dff[t] # <<>>) =>
            /\ kpis[t].cancellation_rate = FromInt(100)
            /\ kpis[t].total_orders =
                   nunique({r.order_id : r \in Rows(CancelledRows(args[t]))})
            /\ kpis[t].total_revenue = SumValues(CancelledRows(args[t]))

\* C9 as amended: with the status set {"Cancelled"} and a non-empty result,
\* total_revenue is the sum of exactly the cancelled rows, total_orders is the
\* number of distinct order_ids among them, and cancellation_rate is 100 times
\* rows over total_orders: 100 when every row has an order_id of its own, more
\* than 100 when an order_id repeats or is missing, 0 when no row has one.
C9_CancelledOnlyRate ==
    \A t \in Threads :
        (Returned(t) /\ args[t].selected_statuses = {"Cancelled"} /\ dff[t] # <<>>) =>
            /\ dff[t] = CancelledRows(args[t])
            /\ kpis[t].total_revenue = SumValues(CancelledRows(args[t]))
            /\ kpis[t].total_orders =
                   nunique({r.order_id : r \in Rows(CancelledRows(args[t]))})
            /\ kpis[t].total_orders = Len(dff[t]) =>
                   kpis[t].cancellation_rate = FromInt(100)
            /\ (0 < kpis[t].total_orders /\ kpis[t].total_orders < Len(dff[t])) =>
                   FLess(FromInt(100), kpis[t].cancellation_rate)
            /\ kpis[t].total_orders = 0 => kpis[t].cancellation_rate = Zero

C9_Witness ==
    \E t \in Threads :
        /\ Returned(t)
        /\ args[t].selected_statuses = {"Cancelled"}
        /\ Len(dff[t]) = 2
        /\ kpis[t].total_orders = 1
        /\ kpis[t].cancellation_rate = FromInt(200)

\* the integer a flag cell of the file writes when it is no boolean
NumFlag(cell) == IF cell = "2" THEN 2 ELSE IF cell = "1" THEN 1 ELSE 0

\* the count a customer_type has in customer_type_counts (0 when absent)
CountOf(counts, type) ==
    SumField(SelectSeq(counts, LAMBDA c : c.customer_type = type), "count")

FlagIs(df, flag) == Cardinality({i \in DOMAIN df : df[i].is_repeat_customer = flag})

\* C10 as stated: every record's is_repeat_customer is 0 or 1 (0 for every
\* record when the file has no such column), so the "Repeat Customer" and
\* "New Customer" counts add up to the rows of the view.
C10_FlagIsZeroOrOne ==
    /\ \A r \in Rows(orders) : r.is_repeat_customer \in {0, 1}
    /\ "is_repeat_customer" \notin raw.columns =>
           \A r \in Rows(orders) : r.is_repeat_customer = 0
    /\ \A t \in Threads :
          Returned(t) =>
              CountOf(figs[t].customer_behavior, "Repeat Customer")
              + CountOf(figs[t].customer_behavior, "New Customer") = Len(dff[t])

\* C10 as amended: every record's is_repeat_customer is an integer: 0 for
\* every record when the file has no such column, otherwise the file's value
\* (true as 1, false as 0, any other integer as it is).  "Repeat Customer"
\* counts the rows of the view whose flag is 1 and "New Customer" those whose
\* flag is 0; they add up to the rows of the view exactly when every flag of
\* the view is 0 or 1.
C10_FlagIsInteger ==
    /\ \A r \in Rows(orders) : r.is_repeat_customer \in Int
    /\ "is_repeat_customer" \notin raw.columns =>
           \A r \in Rows(orders) : r.is_repeat_customer = 0
    /\ "is_repeat_customer" \in raw.columns =>
           \A r \in Rows(orders) :
               r.is_repeat_customer =
                   CASE raw.rows[r.idx].is_repeat_customer \in {"1", "True"} -> 1
                     [] raw.rows[r.idx].is_repeat_customer \in {"0", "False"} -> 0
                     [] OTHER -> NumFlag(raw.rows[r.idx].is_repeat_customer)
    /\ \A t \in Threads :
          Returned(t) =>
              LET repeat == CountOf(figs[t].customer_behavior, "Repeat Customer")
                  new == CountOf(figs[t].customer_behavior, "New Customer")
              IN  /\ repeat = FlagIs(dff[t], 1)
                  /\ new = FlagIs(dff[t], 0)
                  /\ (repeat + new = Len(dff[t])
                        <=> \A r \in Rows(dff[t]) : r.is_repeat_customer \in {0, 1})

C10_Witness ==
    \E t \in Threads :
        /\ Returned(t)
        /\ Len(dff[t]) = 2
        /\ \E r \in Rows(dff[t]) : r.is_repeat_customer = 2
        /\ CountOf(figs[t].customer_behavior, "Repeat Customer")
           + CountOf(figs[t].customer_behavior, "New Customer") = 1

==========================================================================
